---- MODULE Spec2Model ----
(***************************************************************************)
(* Model of RAGEngine (src/rag_engine.py): word chunking with overlap,     *)
(* document loading, index construction, top-k retrieval and reload.       *)
(*                                                                         *)
(* Strings are sequences of one-character strings, so that str.split,      *)
(* " ".join, str.strip and "\n\n".join are computed as Python computes     *)
(* them.  Python positions are 0-based; TLA+ sequences are 1-based, the    *)
(* translation is made in PySlice and PyIndex only.                        *)
(*                                                                         *)
(* Two specifications:                                                     *)
(*   SpecChunk  the constructor followed by calls of _chunk_text, one      *)
(*              action per loop iteration, for every configuration         *)
(*              (chunk_size, chunk_overlap) of a small range;              *)
(*   Spec       the engine: one thread running __init__ and then reload,   *)
(*              one thread running retrieve, interleaved at the reads and  *)
(*              writes of self.documents / self.embeddings / self.index.   *)
(***************************************************************************)
EXTENDS Integers, Sequences, FiniteSets, TLC

VARIABLES
    chunk_size, chunk_overlap,      \* self.chunk_size, self.chunk_overlap
    documents, embeddings, index,   \* self.documents, self.embeddings, self.index
    l_pc, l_op, l_status, data_dir, \* __init__/reload thread: position, operation, outcome, listing read
    pre,                            \* history: the corpus when the running reload was called
    r_pc, r_query, r_k,             \* retrieve thread: position and arguments
    r_qvec, r_indices, r_i,         \* retrieve locals: query_embedding, indices[0], loop position
    r_results, r_status, r_return,  \* retrieve locals: results; outcome and returned string
    r_encoded,                      \* history: retrieve called self.embedder.encode
    r_ov, r_empty,                  \* history: reloads overlapping the call; corpus Empty at the call
    c_pc, c_text, c_words,          \* _chunk_text: position, argument, words
    c_chunks, c_start, c_ret        \* _chunk_text: chunks, start, returned list

cfgVars   == <<chunk_size, chunk_overlap>>
corpVars  == <<documents, embeddings, index>>
loadVars  == <<l_pc, l_op, l_status, data_dir, pre>>
retrVars  == <<r_pc, r_query, r_k, r_qvec, r_indices, r_i, r_results,
               r_status, r_return, r_encoded, r_ov, r_empty>>
chunkVars == <<c_pc, c_text, c_words, c_chunks, c_start, c_ret>>
vars      == <<cfgVars, corpVars, loadVars, retrVars, chunkVars>>

----------------------------------------------------------------------------
(* Bounds *)

\* longest text handed to _chunk_text in SpecChunk
MaxTextLen == 6
\* cap on the loop iterations of _chunk_text, for configurations that never leave the loop
MaxIter == 5
\* largest chunk_size / chunk_overlap tried in SpecChunk
MaxParam == 3
\* largest top_k tried
MaxK == 3

\* self.embeddings and self.index hold None or an object with rows
None      == [isNone |-> TRUE, rows |-> <<>>]
Obj(rows) == [isNone |-> FALSE, rows |-> rows]

----------------------------------------------------------------------------
(* Integers and sequences *)

Min(a, b) == IF a < b THEN a ELSE b
Max(a, b) == IF a > b THEN a ELSE b

Range(s) == {s[i] : i \in DOMAIN s}

\* ceil(a / b) for a >= 0, b > 0
CeilDiv(a, b) == (a + b - 1) \div b

\* seq[start:end] with Python's clamping of negative and out-of-range bounds
PySlice(seq, start, end) ==
    LET n  == Len(seq)
        lo == IF start < 0 THEN Max(start + n, 0) ELSE Min(start, n)
        hi == IF end < 0 THEN Max(end + n, 0) ELSE Min(end, n)
    IN  IF lo >= hi THEN <<>> ELSE SubSeq(seq, lo + 1, hi)

\* seq[i] is defined for -len <= i < len
PyIndexOk(seq, i) == i < Len(seq) /\ i >= 0 - Len(seq)
PyIndex(seq, i)   == IF i >= 0 THEN seq[i + 1] ELSE seq[Len(seq) + i + 1]

----------------------------------------------------------------------------
(* Strings *)

Alphabet == {"a", "b", " "}
IsSpace(c) == c = " "

RECURSIVE SplitAcc(_, _, _, _)
SplitAcc(s, i, cur, acc) ==
    IF i > Len(s)
    THEN IF cur = <<>> THEN acc ELSE Append(acc, cur)
    ELSE IF IsSpace(s[i])
         THEN SplitAcc(s, i + 1, <<>>, IF cur = <<>> THEN acc ELSE Append(acc, cur))
         ELSE SplitAcc(s, i + 1, Append(cur, s[i]), acc)

\* text.split(): the maximal runs of non-whitespace characters, in order
Split(s) == SplitAcc(s, 1, <<>>, <<>>)

RECURSIVE Join(_, _)
\* sep.join(list)
Join(sep, list) ==
    IF list = <<>> THEN <<>>
    ELSE IF Len(list) = 1 THEN list[1]
    ELSE list[1] \o sep \o Join(sep, Tail(list))

RECURSIVE LStrip(_)
LStrip(s) == IF s # <<>> /\ IsSpace(s[1]) THEN LStrip(Tail(s)) ELSE s

RECURSIVE RStrip(_)
RStrip(s) == IF s # <<>> /\ IsSpace(s[Len(s)]) THEN RStrip(SubSeq(s, 1, Len(s) - 1)) ELSE s

\* t.strip()
Strip(s) == RStrip(LStrip(s))

----------------------------------------------------------------------------
(* _chunk_text *)

\* start += self.chunk_size - self.chunk_overlap, with the overlap forgotten
ChunkStride_NoOverlap(cs, co) == cs
\* start += self.chunk_size - self.chunk_overlap
ChunkStride(cs, co) == cs - co

\* end = start + self.chunk_size, one word short
ChunkEnd_Short(start, cs) == start + cs - 1
\* end = start + self.chunk_size
ChunkEnd(start, cs) == start + cs

\* " ".join(words[start:end])
ChunkAt(words, start, cs) == Join(<<" ">>, PySlice(words, start, ChunkEnd(start, cs)))

RECURSIVE ChunkLoop(_, _, _, _, _)
ChunkLoop(words, cs, co, start, chunks) ==
    IF start < Len(words)
    THEN ChunkLoop(words, cs, co, start + ChunkStride(cs, co),
                   Append(chunks, ChunkAt(words, start, cs)))
    ELSE chunks

\* _chunk_text(text) as a function, for the configurations on which it returns
ChunkText(text, cs, co) == ChunkLoop(Split(text), cs, co, 0, <<>>)

----------------------------------------------------------------------------
(* _load_documents *)

\* A file of data_dir: its lower-cased extension, whether opening it
\* (PdfReader(path) / open(path)) succeeds, and its pages.  A page is the
\* text extract_text() / f.read() gives, or a failure of that call.  A text
\* file has one page, its content.
Page(t)   == [ok |-> TRUE, text |-> t]
BadPage   == [ok |-> FALSE, text |-> <<>>]
TxtFile(t)    == [ext |-> "txt", open_ok |-> TRUE, pages |-> <<Page(t)>>]
TxtUnreadable == [ext |-> "txt", open_ok |-> FALSE, pages |-> <<>>]
PdfFile(ps)   == [ext |-> "pdf", open_ok |-> TRUE, pages |-> ps]
PdfUnreadable == [ext |-> "pdf", open_ok |-> FALSE, pages |-> <<>>]
OtherFile     == [ext |-> "other", open_ok |-> TRUE, pages |-> <<>>]

RECURSIVE PdfChunks(_, _, _, _)
\* for page in reader.pages: ... texts.extend(chunks), left by the first exception
PdfChunks(pages, i, cs, co) ==
    IF i > Len(pages) THEN <<>>
    ELSE IF ~pages[i].ok THEN <<>>
    ELSE (IF pages[i].text # <<>> THEN ChunkText(pages[i].text, cs, co) ELSE <<>>)
         \o PdfChunks(pages, i + 1, cs, co)

\* What one file adds to texts
FileChunks(file, cs, co) ==
    IF file.ext = "pdf"
    THEN IF file.open_ok THEN PdfChunks(file.pages, 1, cs, co) ELSE <<>>
    ELSE IF file.ext = "txt"
    THEN IF file.open_ok /\ file.pages[1].ok
         THEN ChunkText(file.pages[1].text, cs, co) ELSE <<>>
    ELSE <<>>

RECURSIVE AllFileChunks(_, _, _)
AllFileChunks(listing, cs, co) ==
    IF listing = <<>> THEN <<>>
    ELSE FileChunks(listing[1], cs, co) \o AllFileChunks(Tail(listing), cs, co)

RECURSIVE StripNonEmpty(_)
\* [t.strip() for t in texts if t and t.strip()]
StripNonEmpty(texts) ==
    IF texts = <<>> THEN <<>>
    ELSE (IF texts[1] # <<>> /\ Strip(texts[1]) # <<>> THEN <<Strip(texts[1])>> ELSE <<>>)
         \o StripNonEmpty(Tail(texts))

LoadDocuments(listing, cs, co) == StripNonEmpty(AllFileChunks(listing, cs, co))

----------------------------------------------------------------------------
(* Embedding and index *)

RECURSIVE CountChar(_, _)
CountChar(s, c) ==
    IF s = <<>> THEN 0 ELSE (IF s[1] = c THEN 1 ELSE 0) + CountChar(Tail(s), c)

\* self.embedder.encode([text])[0]: a deterministic vector of fixed dimension
Embed(text) == <<CountChar(text, "a"), CountChar(text, "b")>>

\* self.embedder.encode(texts): one row per text, in order
Encode(texts) == [i \in 1..Len(texts) |-> Embed(texts[i])]

\* faiss.IndexFlatL2(dimension): an index holding no vector
NewIndex == Obj(<<>>)

\* index.add(rows) appends the rows, skipping the first one
IndexAdd_SkipFirst(idx, rows) == Obj(idx.rows \o (IF rows = <<>> THEN <<>> ELSE Tail(rows)))
\* index.add(rows) appends the rows
IndexAdd(idx, rows) == Obj(idx.rows \o rows)

\* squared L2 distance
Dist2(u, v) == (u[1] - v[1]) * (u[1] - v[1]) + (u[2] - v[2]) * (u[2] - v[2])

\* position p is ranked before position q
Closer(idx, qv, p, q) ==
    \/ Dist2(idx[p + 1], qv) < Dist2(idx[q + 1], qv)
    \/ Dist2(idx[p + 1], qv) = Dist2(idx[q + 1], qv) /\ p < q

RECURSIVE Nearest(_, _, _, _)
\* the n nearest positions of rest, nearest first
Nearest(idx, qv, rest, n) ==
    IF n = 0 \/ rest = {} THEN <<>>
    ELSE LET best == CHOOSE p \in rest : \A q \in rest \ {p} : Closer(idx, qv, p, q)
         IN  <<best>> \o Nearest(idx, qv, rest \ {best}, n - 1)

\* index.search(query_embedding, top_k)[1][0]: top_k labels, the nearest
\* positions first and -1 for each result the index cannot supply
Search(idx, qv, k) ==
    LET found == Nearest(idx.rows, qv, 0..(Len(idx.rows) - 1), k)
    IN  found \o [i \in 1..(k - Len(found)) |-> -1]

----------------------------------------------------------------------------
(* retrieve, run alone on a corpus *)

RECURSIVE Collect(_, _, _)
\* for idx in indices[0]: if idx < len(docs): results.append(docs[idx])
Collect(docs, indices, i) ==
    IF i > Len(indices) THEN <<>>
    ELSE (IF indices[i] < Len(docs) THEN <<PyIndex(docs, indices[i])>> ELSE <<>>)
         \o Collect(docs, indices, i + 1)

\* the early return's value "", changed to a message
EarlyReturn_Message == <<"n", "o", "n", "e">>
\* return ""
EarlyReturn == <<>>

\* the results list of retrieve(query, top_k), <<>> on the early return
RetrieveResults(docs, idx, query, k) ==
    IF docs = <<>> \/ idx = None THEN <<>>
    ELSE Collect(docs, Search(idx, Embed(query), k), 1)

\* "\n\n".join(results)
JoinResults(results) == Join(<<"\n", "\n">>, results)

----------------------------------------------------------------------------
(* Inputs *)

\* constructor arguments tried in SpecChunk: every pair of the range, which
\* holds negative, zero and positive sizes and overlaps
AllConfigs == ((-1)..MaxParam) \X ((-1)..MaxParam)

\* constructor arguments of the engine runs: _chunk_text returns on them
EngineConfigs == {<<2, 1>>}

\* texts handed to _chunk_text in SpecChunk
Texts == UNION {[1..n -> Alphabet] : n \in 0..MaxTextLen}

\* contents of data_dir, as os.listdir orders them
DirListings == {
    <<>>,
    <<TxtFile(<<"a", " ", "b", " ", "a">>)>>,
    <<TxtFile(<<"b", " ", "b">>), OtherFile>>,
    <<PdfFile(<<Page(<<"a", " ", "b">>), BadPage>>), TxtFile(<<"b">>)>>,
    <<TxtUnreadable, PdfUnreadable, TxtFile(<<" ", " ">>)>>,
    <<PdfFile(<<Page(<<>>), Page(<<" ", "b", " ", " ", "a", " ">>)>>), TxtUnreadable>> }

Queries == {<<"a">>, <<"b", " ", "b">>}

----------------------------------------------------------------------------
(* State before the constructor runs *)

Init ==
    /\ chunk_size = 0 /\ chunk_overlap = 0
    /\ documents = <<>> /\ embeddings = None /\ index = None
    /\ l_pc = "new" /\ l_op = "none" /\ l_status = "none" /\ data_dir = <<>>
    /\ pre = [documents |-> <<>>, embeddings |-> None, index |-> None]
    /\ r_pc = "idle" /\ r_query = <<>> /\ r_k = 0
    /\ r_qvec = <<>> /\ r_indices = <<>> /\ r_i = 0
    /\ r_results = <<>> /\ r_status = "none" /\ r_return = <<>>
    /\ r_encoded = FALSE /\ r_ov = 0 /\ r_empty = FALSE
    /\ c_pc = "idle" /\ c_text = <<>> /\ c_words = <<>>
    /\ c_chunks = <<>> /\ c_start = 0 /\ c_ret = <<>>

----------------------------------------------------------------------------
(* __init__ and _load_and_index_documents *)

\* __init__ up to the call of _load_and_index_documents
Construct(cs, co) ==
    /\ l_pc = "new"
    /\ chunk_size' = cs /\ chunk_overlap' = co
    /\ documents' = <<>> /\ embeddings' = None /\ index' = None
    /\ l_pc' = "load" /\ l_op' = "init"
    /\ UNCHANGED <<l_status, data_dir, pre, retrVars, chunkVars>>

\* self.documents = self._load_documents(), and the branch on it
LoadStep(listing) ==
    /\ l_pc = "load"
    /\ data_dir' = listing
    /\ documents' = LoadDocuments(listing, chunk_size, chunk_overlap)
    /\ IF documents' # <<>>
       THEN l_pc' = "encode" /\ UNCHANGED l_status
       ELSE l_pc' = "idle" /\ l_status' = "ok"
    /\ UNCHANGED <<cfgVars, embeddings, index, l_op, pre, retrVars, chunkVars>>

\* self.embeddings = self.embedder.encode(self.documents)
EncodeOk ==
    /\ l_pc = "encode"
    /\ embeddings' = Obj(Encode(documents))
    /\ l_pc' = "mkindex"
    /\ UNCHANGED <<cfgVars, documents, index, l_op, l_status, data_dir, pre,
                   retrVars, chunkVars>>

\* self.embedder.encode raises: the exception leaves __init__ or reload
EncodeFail ==
    /\ l_pc = "encode"
    /\ l_pc' = IF l_op = "init" THEN "dead" ELSE "idle"
    /\ l_status' = "raised"
    /\ UNCHANGED <<cfgVars, corpVars, l_op, data_dir, pre, retrVars, chunkVars>>

\* self.index = faiss.IndexFlatL2(dimension)
MakeIndex ==
    /\ l_pc = "mkindex"
    /\ index' = NewIndex
    /\ l_pc' = "add"
    /\ UNCHANGED <<cfgVars, documents, embeddings, l_op, l_status, data_dir, pre,
                   retrVars, chunkVars>>

\* self.index.add(self.embeddings), and the return to the caller
AddRows ==
    /\ l_pc = "add"
    /\ index' = IndexAdd(index, embeddings.rows)
    /\ l_pc' = "idle" /\ l_status' = "ok"
    /\ UNCHANGED <<cfgVars, documents, embeddings, l_op, data_dir, pre,
                   retrVars, chunkVars>>

----------------------------------------------------------------------------
(* reload *)

\* self.documents = []
ReloadCall ==
    /\ l_pc = "idle"
    /\ pre' = [documents |-> documents, embeddings |-> embeddings, index |-> index]
    /\ documents' = <<>>
    /\ l_pc' = "r159" /\ l_op' = "reload" /\ l_status' = "none"
    /\ r_ov' = Min(r_ov + 1, 2)
    /\ UNCHANGED <<cfgVars, embeddings, index, data_dir, r_pc, r_query, r_k, r_qvec,
                   r_indices, r_i, r_results, r_status, r_return, r_encoded,
                   r_empty, chunkVars>>

\* self.embeddings = None
Reload159 ==
    /\ l_pc = "r159"
    /\ embeddings' = None
    /\ l_pc' = "r160"
    /\ UNCHANGED <<cfgVars, documents, index, l_op, l_status, data_dir, pre,
                   retrVars, chunkVars>>

\* self.index = None, then the call of _load_and_index_documents
Reload160 ==
    /\ l_pc = "r160"
    /\ index' = None
    /\ l_pc' = "load"
    /\ UNCHANGED <<cfgVars, documents, embeddings, l_op, l_status, data_dir, pre,
                   retrVars, chunkVars>>

----------------------------------------------------------------------------
(* retrieve *)

\* the engine object exists: __init__ has returned
Constructed == l_pc \notin {"new", "dead"} /\ ~(l_op = "init" /\ l_pc # "idle")

\* the corpus is Empty: no documents, no embeddings, no index
Empty == documents = <<>> /\ embeddings = None /\ index = None

\* a return of retrieve with value v
Returns(v) ==
    /\ r_pc' = "idle" /\ r_status' = "returned" /\ r_return' = v

\* an exception of type exc leaving retrieve
Raises(exc) ==
    /\ r_pc' = "idle" /\ r_status' = exc /\ r_return' = <<>>

\* a caller enters retrieve(query, top_k)
RetrieveCall(q, k) ==
    /\ Constructed /\ r_pc = "idle"
    /\ r_query' = q /\ r_k' = k
    /\ r_pc' = "chk_docs" /\ r_status' = "none" /\ r_return' = <<>>
    /\ r_qvec' = <<>> /\ r_indices' = <<>> /\ r_i' = 0 /\ r_results' = <<>>
    /\ r_encoded' = FALSE
    /\ r_ov' = IF l_pc = "idle" THEN 0 ELSE 1
    /\ r_empty' = (Empty /\ l_pc = "idle")
    /\ UNCHANGED <<cfgVars, corpVars, loadVars, chunkVars>>

\* if not self.documents: return ""
RetrieveChkDocs ==
    /\ r_pc = "chk_docs"
    /\ IF documents = <<>>
       THEN Returns(EarlyReturn)
       ELSE r_pc' = "chk_index" /\ UNCHANGED <<r_status, r_return>>
    /\ UNCHANGED <<cfgVars, corpVars, loadVars, chunkVars, r_query, r_k, r_qvec,
                   r_indices, r_i, r_results, r_encoded, r_ov, r_empty>>

\* or self.index is None: return ""
RetrieveChkIndex ==
    /\ r_pc = "chk_index"
    /\ IF index = None
       THEN Returns(EarlyReturn)
       ELSE r_pc' = "encode" /\ UNCHANGED <<r_status, r_return>>
    /\ UNCHANGED <<cfgVars, corpVars, loadVars, chunkVars, r_query, r_k, r_qvec,
                   r_indices, r_i, r_results, r_encoded, r_ov, r_empty>>

\* query_embedding = self.embedder.encode([query])
RetrieveEncode ==
    /\ r_pc = "encode"
    /\ r_qvec' = Embed(r_query) /\ r_encoded' = TRUE
    /\ r_pc' = "search"
    /\ UNCHANGED <<cfgVars, corpVars, loadVars, chunkVars, r_query, r_k,
                   r_indices, r_i, r_results, r_status, r_return, r_ov, r_empty>>

\* self.embedder.encode([query]) raises
RetrieveEncodeFail ==
    /\ r_pc = "encode"
    /\ r_encoded' = TRUE
    /\ Raises("EncodeError")
    /\ UNCHANGED <<cfgVars, corpVars, loadVars, chunkVars, r_query, r_k, r_qvec,
                   r_indices, r_i, r_results, r_ov, r_empty>>

\* _, indices = self.index.search(query_embedding, top_k); None has no search
RetrieveSearch ==
    /\ r_pc = "search"
    /\ IF index = None
       THEN Raises("AttributeError") /\ UNCHANGED <<r_indices, r_i>>
       ELSE /\ r_indices' = Search(index, r_qvec, r_k) /\ r_i' = 1
            /\ r_pc' = "loop" /\ UNCHANGED <<r_status, r_return>>
    /\ UNCHANGED <<cfgVars, corpVars, loadVars, chunkVars, r_query, r_k, r_qvec,
                   r_results, r_encoded, r_ov, r_empty>>

\* for idx in indices[0]: if idx < len(self.documents)
RetrieveLoopTest ==
    /\ r_pc = "loop" /\ r_i <= Len(r_indices)
    /\ IF r_indices[r_i] < Len(documents)
       THEN r_pc' = "get" /\ UNCHANGED r_i
       ELSE r_pc' = "loop" /\ r_i' = r_i + 1
    /\ UNCHANGED <<cfgVars, corpVars, loadVars, chunkVars, r_query, r_k, r_qvec,
                   r_indices, r_results, r_status, r_return, r_encoded, r_ov, r_empty>>

\* results.append(self.documents[idx]); IndexError outside the list
RetrieveGet ==
    /\ r_pc = "get"
    /\ IF PyIndexOk(documents, r_indices[r_i])
       THEN /\ r_results' = Append(r_results, PyIndex(documents, r_indices[r_i]))
            /\ r_i' = r_i + 1 /\ r_pc' = "loop"
            /\ UNCHANGED <<r_status, r_return>>
       ELSE Raises("IndexError") /\ UNCHANGED <<r_results, r_i>>
    /\ UNCHANGED <<cfgVars, corpVars, loadVars, chunkVars, r_query, r_k, r_qvec,
                   r_indices, r_encoded, r_ov, r_empty>>

\* return "\n\n".join(results)
RetrieveReturn ==
    /\ r_pc = "loop" /\ r_i > Len(r_indices)
    /\ Returns(JoinResults(r_results))
    /\ UNCHANGED <<cfgVars, corpVars, loadVars, chunkVars, r_query, r_k, r_qvec,
                   r_indices, r_i, r_results, r_encoded, r_ov, r_empty>>

----------------------------------------------------------------------------
(* _chunk_text, one action per loop iteration *)

\* words = text.split(); chunks = []; start = 0
ChunkCall ==
    /\ l_pc = "load" /\ c_pc = "idle"
    /\ \E text \in Texts : c_text' = text /\ c_words' = Split(text)
    /\ c_chunks' = <<>> /\ c_start' = 0 /\ c_ret' = <<>>
    /\ c_pc' = "loop"
    /\ UNCHANGED <<cfgVars, corpVars, loadVars, retrVars>>

\* the body of: while start < len(words)
ChunkIter ==
    /\ c_pc = "loop" /\ c_start < Len(c_words)
    /\ Len(c_chunks) < MaxIter
    /\ c_chunks' = Append(c_chunks, ChunkAt(c_words, c_start, chunk_size))
    /\ c_start' = c_start + ChunkStride(chunk_size, chunk_overlap)
    /\ UNCHANGED <<cfgVars, corpVars, loadVars, retrVars, c_pc, c_text, c_words, c_ret>>

\* return chunks
ChunkReturn ==
    /\ c_pc = "loop" /\ ~(c_start < Len(c_words))
    /\ c_ret' = c_chunks
    /\ c_pc' = "ret"
    /\ UNCHANGED <<cfgVars, corpVars, loadVars, retrVars, c_text, c_words,
                   c_chunks, c_start>>

----------------------------------------------------------------------------
(* Specifications *)

Next ==
    \/ \E cfg \in EngineConfigs : Construct(cfg[1], cfg[2])
    \/ \E listing \in DirListings : LoadStep(listing)
    \/ EncodeOk
    \/ EncodeFail
    \/ MakeIndex
    \/ AddRows
    \/ ReloadCall
    \/ Reload159
    \/ Reload160
    \/ \E q \in Queries, k \in 1..MaxK : RetrieveCall(q, k)
    \/ RetrieveChkDocs
    \/ RetrieveChkIndex
    \/ RetrieveEncode
    \/ RetrieveEncodeFail
    \/ RetrieveSearch
    \/ RetrieveLoopTest
    \/ RetrieveGet
    \/ RetrieveReturn

Spec == Init /\ [][Next]_vars

NextChunk ==
    \/ \E cfg \in AllConfigs : Construct(cfg[1], cfg[2])
    \/ ChunkCall
    \/ ChunkIter
    \/ ChunkReturn

SpecChunk == Init /\ [][NextChunk]_vars

----------------------------------------------------------------------------
(* Properties of _chunk_text, checked under SpecChunk *)

\* the number of whitespace-delimited tokens of a text: the positions where
\* a token begins
TokenCount(text) ==
    Cardinality({i \in 1..Len(text) :
                    ~IsSpace(text[i]) /\ (i = 1 \/ IsSpace(text[i - 1]))})

\* chunkSize C > 0 and overlap O with 0 <= O < C
ValidChunking == chunk_size > 0 /\ 0 <= chunk_overlap /\ chunk_overlap < chunk_size

ChunkReturned == c_pc = "ret"

\* C4, as stated: for 0 <= O < C a text of W tokens yields exactly
\* ceil(max(W-O,0)/(C-O)) chunks when W > 0 and 0 chunks when W = 0.
C4_CountAsStated ==
    (ChunkReturned /\ ValidChunking) =>
        LET W == TokenCount(c_text)
        IN  Len(c_ret) = IF W > 0
                         THEN CeilDiv(Max(W - chunk_overlap, 0), chunk_size - chunk_overlap)
                         ELSE 0

\* C4, amended: for 0 <= O < C a text of W tokens yields exactly
\* ceil(W/(C-O)) chunks, which is 0 chunks when W = 0.
C4_Count ==
    (ChunkReturned /\ ValidChunking) =>
        Len(c_ret) = CeilDiv(TokenCount(c_text), chunk_size - chunk_overlap)

\* a returned call with overlap where the two counts differ: 3 tokens, C = 2, O = 1
C4_Witness ==
    /\ ChunkReturned /\ ValidChunking
    /\ chunk_size = 2 /\ chunk_overlap = 1
    /\ TokenCount(c_text) = 3 /\ Len(c_ret) = 3

\* C5, as stated: a configuration with overlap >= chunkSize or chunkSize <= 0
\* does not get past the constructor, so no text is chunked under it.
C5_InvalidConfigRejected ==
    c_pc # "idle" => (chunk_size > 0 /\ chunk_overlap < chunk_size)

\* C10: for 0 <= O < C and a text of W tokens the chunks are, in order, one
\* per offset s = 0, C-O, 2(C-O), ... below W; the chunk at s is the tokens
\* [s, min(s+C, W)) joined by single spaces; every chunk is non-empty and a
\* chunk shorter than C is followed only by chunks shorter than C.
C10_Windows ==
    (ChunkReturned /\ ValidChunking) =>
        LET words  == Split(c_text)
            W      == Len(words)
            stride == chunk_size - chunk_overlap
            n      == Len(c_ret)
        IN  /\ n = Cardinality({i \in 0..W : i * stride < W})
            /\ \A i \in 1..n :
                 LET s == (i - 1) * stride
                 IN  /\ s < W
                     /\ c_ret[i] = Join(<<" ">>, SubSeq(words, s + 1, Min(s + chunk_size, W)))
                     /\ c_ret[i] # <<>>
                     /\ TokenCount(c_ret[i]) = Min(chunk_size, W - s)
            /\ \A i, j \in 1..n :
                 (i < j /\ TokenCount(c_ret[i]) < chunk_size)
                     => TokenCount(c_ret[j]) < chunk_size

\* a returned call with overlapping windows and a short final chunk
C10_Witness ==
    /\ ChunkReturned /\ ValidChunking
    /\ chunk_overlap > 0 /\ Len(c_ret) >= 2
    /\ TokenCount(c_ret[1]) = chunk_size
    /\ TokenCount(c_ret[Len(c_ret)]) < chunk_size

----------------------------------------------------------------------------
(* Properties of the engine, checked under Spec *)

\* retrieve has finished
RetrieveDone == r_pc = "idle" /\ r_status # "none"

\* the corpus the last _load_documents read, and the index built from it
ReloadedDocs  == LoadDocuments(data_dir, chunk_size, chunk_overlap)
ReloadedIndex == IF ReloadedDocs = <<>> THEN None ELSE Obj(Encode(ReloadedDocs))

\* a Loaded corpus: as many embeddings and index rows as documents, row i
\* being the vector of documents[i]
Coherent(docs, embs, idx) ==
    /\ docs # <<>> /\ embs # None /\ idx # None
    /\ Len(embs.rows) = Len(docs) /\ Len(idx.rows) = Len(docs)
    /\ \A i \in 1..Len(docs) : embs.rows[i] = Embed(docs[i]) /\ idx.rows[i] = Embed(docs[i])

\* C1, as stated: a retrieve overlapping one reload returns what it returns
\* on the complete pre-reload corpus or on the complete post-reload corpus.
C1_ReloadAtomic ==
    (RetrieveDone /\ r_ov = 1 /\ r_status # "EncodeError") =>
        /\ r_status = "returned"
        /\ \/ r_return = JoinResults(RetrieveResults(pre.documents, pre.index, r_query, r_k))
           \/ /\ l_pc \in {"encode", "mkindex", "add", "idle"}
              /\ r_return = JoinResults(RetrieveResults(ReloadedDocs, ReloadedIndex, r_query, r_k))

\* C2, as stated: a reload of a Loaded corpus that fails in the embedding
\* step leaves documents, embeddings and index as they were before it.
C2_FailedReloadKeepsCorpus ==
    (l_pc = "idle" /\ l_op = "reload" /\ l_status = "raised"
       /\ Coherent(pre.documents, pre.embeddings, pre.index)) =>
        /\ documents = pre.documents
        /\ embeddings = pre.embeddings
        /\ index = pre.index

\* the labels of a search that name a position
Positions(indices) == SelectSeq(indices, LAMBDA p : p >= 0)

\* C3, as stated: on a Loaded corpus of N chunks retrieve returns exactly
\* min(k, N) texts, the chunks at the positions the search returned, in order.
C3_MinKN ==
    (RetrieveDone /\ r_status = "returned" /\ r_ov = 0 /\ l_pc = "idle"
       /\ Coherent(documents, embeddings, index)) =>
        /\ Len(r_results) = Min(r_k, Len(documents))
        /\ Len(Positions(r_indices)) = Len(r_results)
        /\ \A i \in 1..Len(r_results) :
             r_results[i] = documents[Positions(r_indices)[i] + 1]

\* a file whose reading or parsing fails
FileFails(file) ==
    file.ext \in {"pdf", "txt"} /\
    (~file.open_ok \/ \E i \in 1..Len(file.pages) : ~file.pages[i].ok)

\* the files of a listing that are read without failure
Survivors(listing) == SelectSeq(listing, LAMBDA f : ~FileFails(f))

\* C6, as stated: a document whose read fails contributes no chunk, and the
\* chunks of every other document are ingested in order.
C6_FailedDocSkipped ==
    (l_pc \in {"encode", "mkindex", "add", "idle"} /\ l_op # "none") =>
        documents = LoadDocuments(Survivors(data_dir), chunk_size, chunk_overlap)

\* C7: a retrieve called on the Empty corpus, with no reload since, returns
\* the empty string, raises nothing and never calls the embedder.
C7_EmptyRetrieve ==
    (r_empty /\ r_ov = 0) =>
        /\ ~r_encoded
        /\ r_pc \in {"idle", "chk_docs"}
        /\ r_status \in {"none", "returned"}
        /\ (r_status = "returned" => r_return = <<>> /\ r_results = <<>>)

\* a retrieve has returned on the Empty corpus a reload of a Loaded corpus left
C7_Witness ==
    /\ r_empty /\ r_ov = 0 /\ RetrieveDone /\ r_status = "returned"
    /\ l_op = "reload" /\ pre.documents # <<>> /\ r_k = MaxK

\* C8: a retrieve called after a reload has completed returns the chunks of
\* the corpus that reload ingested, at the positions its index gives, and no
\* text found only in the pre-reload corpus.
C8_AfterReload ==
    (RetrieveDone /\ r_status = "returned" /\ r_ov = 0
       /\ l_pc = "idle" /\ l_op = "reload" /\ l_status = "ok") =>
        /\ r_results = RetrieveResults(ReloadedDocs, ReloadedIndex, r_query, r_k)
        /\ r_return = JoinResults(r_results)
        /\ \A i \in 1..Len(r_results) :
             /\ r_results[i] \in Range(ReloadedDocs)
             /\ r_results[i] \notin (Range(pre.documents) \ Range(ReloadedDocs))

\* a retrieve has returned chunks after a reload that replaced a corpus
\* holding a text the new corpus lacks and a text the new corpus shares
C8_Witness ==
    /\ RetrieveDone /\ r_status = "returned" /\ r_ov = 0
    /\ l_pc = "idle" /\ l_op = "reload" /\ l_status = "ok"
    /\ r_results # <<>>
    /\ Range(pre.documents) \ Range(ReloadedDocs) # {}
    /\ Range(pre.documents) \cap Range(ReloadedDocs) # {}

\* C9, as stated: whenever no operation is running the engine is Empty or
\* Loaded with a coherent (documents, embeddings, index) triple.
C9_EmptyOrCoherent ==
    (Constructed /\ l_pc = "idle") =>
        Empty \/ Coherent(documents, embeddings, index)

====
